---- MODULE Spec2Model ----
(***************************************************************************)
(* Match proposal / acceptance / deletion handlers of app.py, over the     *)
(* Match (Proposal) and AcceptedMatches (ConfirmedMatch) tables.           *)
(*                                                                         *)
(* Every request handler is one action.  A request carries its session     *)
(* cookie (sess) and its URL parameter as inputs; add_user_to_g turns the  *)
(* cookie into g.user before the handler body runs.  The response of the   *)
(* last request is kept in resp.  An exception that escapes a handler is   *)
(* a 500 response; the request's database session is discarded, so         *)
(* nothing that was not committed is stored.                               *)
(*                                                                         *)
(* User.accepts_match, User.all_matches, User.matches (models.py) and      *)
(* random_user (handlers.py) are called by app.py and defined elsewhere;   *)
(* they follow sections 4.1, 4.2 and 4.4 of the specification.  The        *)
(* AcceptedMatches table is a bag of (user1_id, user2_id) rows: no         *)
(* uniqueness constraint is declared for it (section 5).                   *)
(*                                                                         *)
(* Four specifications share the handlers:                                 *)
(*   Spec      the match routes, one request at a time;                    *)
(*   HomeSpec  the homepage over the states the routes produce;            *)
(*   LiveSpec  the browser following show_homepage's redirect to '/';      *)
(*   RaceSpec  match_users step by step, several requests in flight.       *)
(***************************************************************************)
EXTENDS Integers, FiniteSets, Sequences, TLC

\* ---------------------------------------------------------------- bounds
\* Rows the AcceptedMatches table may hold.
MaxRows == 2
\* Concurrent match_users requests of the interleaved specification.
MaxReq == 2

\* ----------------------------------------------------------------- users
\* The rows of the User table (the users that have signed up).
Users == {1, 2, 3}
\* g.user = None: no session cookie.
NoUser == 0
\* An id no User row has (get_or_404 answers 404).
UnknownId == 99
Sessions == Users \cup {NoUser}
Ids == Users \cup {UnknownId}
Procs == 1..MaxReq

VARIABLES
    favorites,   \* favorites[u]: User.favorites_id of u is set
    matches,     \* the Match table: set of rows
    accepted,    \* the AcceptedMatches table: accepted[<<u1,u2>>] = number of rows
    resp,        \* the response to the last request
    req          \* req[p]: the match_users request p in flight (interleaved spec)

vars == <<favorites, matches, accepted, resp, req>>

OrderedPairs == Users \X Users

\* ------------------------------------------------------------ g.user
add_user_to_g(sess) == IF sess \in Users THEN sess ELSE NoUser

\* ------------------------------------------------------------ queries
\* Match rows of the unordered pair {a, b}.
ProposalsFor(a, b) ==
    {m \in matches : \/ (m.user1_id = a /\ m.user2_id = b)
                     \/ (m.user1_id = b /\ m.user2_id = a)}

\* Match.query.filter(u1 == Match.user1_id, u2 == Match.user2_id)
MatchQuery(M, u1, u2) == {m \in M : m.user1_id = u1 /\ m.user2_id = u2}

\* Number of AcceptedMatches rows of the unordered pair {a, b}.
RowsFor(acc, a, b) == IF a = b THEN acc[<<a, a>>] ELSE acc[<<a, b>>] + acc[<<b, a>>]

RECURSIVE SumRows(_, _)
SumRows(acc, S) ==
    IF S = {} THEN 0
    ELSE LET p == CHOOSE q \in S : TRUE IN acc[p] + SumRows(acc, S \ {p})

\* Number of rows of the AcceptedMatches table.
TotalRows(acc) == SumRows(acc, OrderedPairs)

\* one_or_none() over n matching rows: "none", "one" or MultipleResultsFound.
one_or_none(n) == IF n = 0 THEN "none" ELSE IF n = 1 THEN "one" ELSE "multiple"

\* User.all_matches(): the users with an AcceptedMatches row involving u,
\* in either direction.
all_matches(acc, u) == {x \in Users : acc[<<u, x>>] + acc[<<x, u>>] > 0}

\* g.user.matches: the confirmed-match set of u.
user_matches(acc, u) == all_matches(acc, u)

\* User.accepts_match(other): the Match row of the unordered pair after the
\* acceptance of `other` by `user`.
accepts_match_row(M, user, other) ==
    LET found == {m \in M : \/ (m.user1_id = user /\ m.user2_id = other)
                            \/ (m.user1_id = other /\ m.user2_id = user)}
    IN IF found = {}
       THEN [user1_id |-> user, user2_id |-> other,
             user1_accepted |-> TRUE, user2_accepted |-> FALSE]
       ELSE LET m == CHOOSE x \in found : TRUE
            IN IF m.user2_id = user
               THEN [m EXCEPT !.user2_accepted = TRUE]
               ELSE m

\* The Match table after User.accepts_match(other) has committed.
accepts_match(M, user, other) ==
    LET found == {m \in M : \/ (m.user1_id = user /\ m.user2_id = other)
                            \/ (m.user1_id = other /\ m.user2_id = user)}
    IN (M \ found) \cup {accepts_match_row(M, user, other)}

\* ------------------------------------------------------------ responses
Response(op, user, other, status, body) ==
    [op |-> op, user |-> user, other |-> other, status |-> status, body |-> body]

Idle == [pc |-> "idle", user |-> NoUser, other |-> NoUser]

Init ==
    /\ favorites = [u \in Users |-> FALSE]
    /\ matches = {}
    /\ accepted = [p \in OrderedPairs |-> 0]
    /\ resp = Response("none", NoUser, NoUser, "none", {})
    /\ req = [p \in Procs |-> Idle]

\* ------------------------------------------------------------ match_users
\* Mutant of BothAccepted: `or` in place of `and`.
EitherAccepted(match) == match.user1_accepted = TRUE \/ match.user2_accepted = TRUE

\* Line 323: the test that both sides have accepted.
BothAccepted(match) == match.user1_accepted = TRUE /\ match.user2_accepted = TRUE

\* Mutant of AddAccepted: a row is added in each direction.
AddAcceptedBothWays(acc, user, user2) ==
    [acc EXCEPT ![<<user, user2>>] = @ + 1, ![<<user2, user>>] = @ + 1]

\* Mutant of AddAccepted: the row names the acting user twice.
AddAcceptedSelf(acc, user, user2) == [acc EXCEPT ![<<user, user>>] = @ + 1]

\* Mutant of AddAccepted: the insert is skipped when the pair has a row.
AddAcceptedGuarded(acc, user, user2) ==
    IF acc[<<user, user2>>] + acc[<<user2, user>>] > 0
    THEN acc
    ELSE [acc EXCEPT ![<<user, user2>>] = @ + 1]

\* Lines 325-327: AcceptedMatches(user1_id=user.id, user2_id=user2.id) added
\* and committed.
AddAccepted(acc, user, user2) == [acc EXCEPT ![<<user, user2>>] = @ + 1]

\* POST /<other_user_id>
match_users(sess, other_user_id) ==
    LET user == add_user_to_g(sess) IN
    IF other_user_id \notin Users
    THEN \* get_or_404
         /\ resp' = Response("match_users", user, other_user_id, "notfound", {})
         /\ UNCHANGED <<favorites, matches, accepted, req>>
    ELSE IF user = NoUser
    THEN \* None.accepts_match: AttributeError
         /\ resp' = Response("match_users", user, other_user_id, "error", {})
         /\ UNCHANGED <<favorites, matches, accepted, req>>
    ELSE LET match == accepts_match_row(matches, user, other_user_id) IN
         \* self-pairs are disallowed by the data model (section 3)
         /\ user # other_user_id
         /\ matches' = accepts_match(matches, user, other_user_id)
         /\ IF BothAccepted(match)
            THEN /\ TotalRows(accepted) < MaxRows
                 /\ accepted' = AddAccepted(accepted, user, other_user_id)
            ELSE accepted' = accepted
         /\ resp' = Response("match_users", user, other_user_id, "redirect", {})
         /\ UNCHANGED <<favorites, req>>

\* ------------------------------------------------------------ show_matches
\* GET /matches
show_matches(sess) ==
    LET user == add_user_to_g(sess) IN
    /\ IF user = NoUser
       THEN resp' = Response("show_matches", user, NoUser, "redirect", {})
       ELSE LET all == all_matches(accepted, user) IN
            IF Cardinality(all) = 0
            THEN resp' = Response("show_matches", user, NoUser, "redirect", {})
            ELSE resp' = Response("show_matches", user, NoUser, "render", all)
    /\ UNCHANGED <<favorites, matches, accepted, req>>

\* ------------------------------------------------------------ delete_match
\* Lines 356-358: the Match row, looked up in both orders.
potential_match(M, user, other) ==
    IF MatchQuery(M, user, other) # {}
    THEN MatchQuery(M, user, other)
    ELSE MatchQuery(M, other, user)

\* Lines 360-362: the AcceptedMatches row, looked up in both orders.  found is
\* "one" with the ordered pair of the row, "none" for None, and "multiple"
\* when one_or_none raises MultipleResultsFound.
accepted_match(acc, user, other) ==
    IF one_or_none(acc[<<user, other>>]) # "none"
    THEN [found |-> one_or_none(acc[<<user, other>>]), row |-> <<user, other>>]
    ELSE [found |-> one_or_none(acc[<<other, user>>]), row |-> <<other, user>>]

\* POST /matches/<other_user_id>/delete
delete_match(sess, other_user_id) ==
    LET user == add_user_to_g(sess) IN
    IF other_user_id \notin Users
    THEN \* get_or_404
         /\ resp' = Response("delete_match", user, other_user_id, "notfound", {})
         /\ UNCHANGED <<favorites, matches, accepted, req>>
    ELSE IF user = NoUser
    THEN \* None.id: AttributeError
         /\ resp' = Response("delete_match", user, other_user_id, "error", {})
         /\ UNCHANGED <<favorites, matches, accepted, req>>
    ELSE LET pm == potential_match(matches, user, other_user_id)
             am == accepted_match(accepted, user, other_user_id)
         IN IF am.found = "multiple" \/ pm = {} \/ am.found = "none"
            THEN \* MultipleResultsFound, or db.session.delete(None):
                 \* the request ends before the commit
                 /\ resp' = Response("delete_match", user, other_user_id, "error", {})
                 /\ UNCHANGED <<favorites, matches, accepted, req>>
            ELSE /\ matches' = matches \ pm
                 /\ accepted' = [accepted EXCEPT ![am.row] = @ - 1]
                 /\ resp' = Response("delete_match", user, other_user_id, "redirect", {})
                 /\ UNCHANGED <<favorites, req>>

\* ------------------------------------------------------------ favorites
\* POST /favorites
set_user_favorites(sess) ==
    LET user == add_user_to_g(sess) IN
    IF user = NoUser
    THEN \* None.id: AttributeError, not an SQLAlchemyError
         /\ resp' = Response("set_user_favorites", user, NoUser, "error", {})
         /\ UNCHANGED <<favorites, matches, accepted, req>>
    ELSE /\ favorites' = [favorites EXCEPT ![user] = TRUE]
         /\ resp' = Response("set_user_favorites", user, NoUser, "redirect", {})
         /\ UNCHANGED <<matches, accepted, req>>

\* ------------------------------------------------------------ homepage
\* random_user(): the users a draw can return.
random_user == Users

\* Mutant of Rejected: only the already_matched query guards matched users.
RejectedOneWay(user, other_user, already_matched) ==
    \/ other_user = user
    \/ favorites[other_user] = FALSE
    \/ already_matched # "none"

\* Line 305: the drawn user is rejected.
Rejected(user, other_user, already_matched) ==
    \/ other_user = user
    \/ favorites[other_user] = FALSE
    \/ other_user \in user_matches(accepted, user)
    \/ already_matched # "none"

\* GET /, with other_user the user random_user() draws.
show_homepage(sess, other_user) ==
    LET user == add_user_to_g(sess)
        already_matched == one_or_none(accepted[<<user, other_user>>])
    IN
    /\ IF user = NoUser
       THEN resp' = Response("show_homepage", user, NoUser, "render", {})
       ELSE IF already_matched = "multiple"
       THEN resp' = Response("show_homepage", user, other_user, "error", {})
       ELSE IF Rejected(user, other_user, already_matched)
       THEN resp' = Response("show_homepage", user, other_user, "redirect", {})
       ELSE resp' = Response("show_homepage", user, other_user, "render", {other_user})
    /\ UNCHANGED <<favorites, matches, accepted, req>>

\* ------------------------------------------------------------ sequential
\* The match routes, one request at a time, with any cookie and any id.
Next ==
    \/ \E sess \in Sessions, id \in Ids : match_users(sess, id)
    \/ \E sess \in Sessions, id \in Ids : delete_match(sess, id)
    \/ \E sess \in Sessions : show_matches(sess)

Spec == Init /\ [][Next]_vars

\* The homepage over every state the match routes and the favorites form
\* of logged-in users produce.
HomeNext ==
    \/ \E sess \in Users, id \in Users : match_users(sess, id)
    \/ \E sess \in Users, id \in Users : delete_match(sess, id)
    \/ \E sess \in Users : set_user_favorites(sess)
    \/ \E sess \in Sessions, other \in random_user : show_homepage(sess, other)

HomeSpec == Init /\ [][HomeNext]_vars

\* ------------------------------------------------------------ retry chain
\* The last response is show_homepage's redirect('/') to user u: the browser
\* of u requests '/' again.
HomePending(u) ==
    resp.op = "show_homepage" /\ resp.user = u /\ resp.status = "redirect"

\* The browser of u follows the redirect and random_user() draws other.
Retry(u, other) == HomePending(u) /\ show_homepage(u, other)

\* A request made while no browser is following a redirect.
Fresh ==
    /\ \A u \in Users : ~HomePending(u)
    /\ \/ \E sess \in Users, id \in Users : match_users(sess, id)
       \/ \E sess \in Users : set_user_favorites(sess)
       \/ \E sess \in Users, other \in random_user : show_homepage(sess, other)

LiveNext ==
    \/ Fresh
    \/ \E u \in Users, other \in random_user : Retry(u, other)

\* random_user() is uniform: every user is drawn again and again while the
\* chain of redirects lasts.
LiveSpec ==
    /\ Init
    /\ [][LiveNext]_vars
    /\ \A u \in Users, other \in random_user : SF_vars(Retry(u, other))

\* ------------------------------------------------------------ interleaved
\* match_users step by step, for MaxReq requests in flight at once.
\* Lines 317-318: g.user and get_or_404 of a logged-in user's request.
Begin(p, sess, other_user_id) ==
    /\ req[p].pc = "idle"
    /\ add_user_to_g(sess) # NoUser
    /\ other_user_id \in Users
    /\ other_user_id # add_user_to_g(sess)
    /\ req' = [req EXCEPT ![p] = [pc |-> "accepts", user |-> add_user_to_g(sess),
                                  other |-> other_user_id]]
    /\ UNCHANGED <<favorites, matches, accepted, resp>>

\* Line 320: user.accepts_match(other_user_id), committed.
AcceptsStep(p) ==
    /\ req[p].pc = "accepts"
    /\ matches' = accepts_match(matches, req[p].user, req[p].other)
    /\ req' = [req EXCEPT ![p].pc = "test"]
    /\ UNCHANGED <<favorites, accepted, resp>>

\* Line 323: the flags of the row, read after the commit has expired it.
TestStep(p) ==
    /\ req[p].pc = "test"
    /\ LET match == accepts_match_row(matches, req[p].user, req[p].other)
       IN req' = [req EXCEPT ![p].pc = IF BothAccepted(match) THEN "insert" ELSE "done"]
    /\ UNCHANGED <<favorites, matches, accepted, resp>>

\* Lines 325-327: the insert and its commit.
InsertStep(p) ==
    /\ req[p].pc = "insert"
    /\ TotalRows(accepted) < MaxRows
    /\ accepted' = AddAccepted(accepted, req[p].user, req[p].other)
    /\ req' = [req EXCEPT ![p].pc = "done"]
    /\ UNCHANGED <<favorites, matches, resp>>

RaceNext ==
    \/ \E p \in Procs, sess \in Users, id \in Users : Begin(p, sess, id)
    \/ \E p \in Procs : AcceptsStep(p)
    \/ \E p \in Procs : TestStep(p)
    \/ \E p \in Procs : InsertStep(p)

RaceSpec == Init /\ [][RaceNext]_vars

\* ================================================================ claims
Row(u1, u2, a1, a2) ==
    [user1_id |-> u1, user2_id |-> u2, user1_accepted |-> a1, user2_accepted |-> a2]

\* The request just answered was op by user on other.
Answered(r, op, user, other) == r.op = op /\ r.user = user /\ r.other = other

\* C1: from no Proposal and no ConfirmedMatch for {a, b}, the accept of b by
\* a leaves the one Proposal (a, b, true, false) and no ConfirmedMatch, and
\* the accept of a by b that follows leaves exactly one Proposal for {a, b},
\* with both flags true, and at most one ConfirmedMatch for {a, b}.
C1_MutualAcceptance ==
    [][\A a \in Users : \A b \in Users \ {a} :
        /\ ( /\ Answered(resp', "match_users", a, b)
             /\ ProposalsFor(a, b) = {}
             /\ RowsFor(accepted, a, b) = 0 )
           => /\ ProposalsFor(a, b)' = {Row(a, b, TRUE, FALSE)}
              /\ RowsFor(accepted', a, b) = 0
        /\ ( /\ Answered(resp', "match_users", b, a)
             /\ ProposalsFor(a, b) = {Row(a, b, TRUE, FALSE)}
             /\ RowsFor(accepted, a, b) = 0 )
           => /\ ProposalsFor(a, b)' = {Row(a, b, TRUE, TRUE)}
              /\ RowsFor(accepted', a, b) <= 1
    ]_vars

\* C1 witness: b has just accepted a after a accepted b.
C1_Witness ==
    \E a \in Users : \E b \in Users \ {a} :
        /\ Answered(resp, "match_users", b, a)
        /\ resp.status = "redirect"
        /\ ProposalsFor(a, b) = {Row(a, b, TRUE, TRUE)}
        /\ RowsFor(accepted, a, b) = 1

\* C2: after any sequence of accepts, one after the other, there is at most
\* one ConfirmedMatch row per unordered pair.
C2_AtMostOneConfirmedMatch ==
    \A a \in Users, b \in Users : RowsFor(accepted, a, b) <= 1

\* C3: when a accepts b again and b has not accepted, nothing stored
\* changes: the one Proposal (a, b, true, false) stays and no ConfirmedMatch
\* is created.
C3_Idempotence ==
    [][\A a \in Users : \A b \in Users \ {a} :
        ( /\ Answered(resp', "match_users", a, b)
          /\ ProposalsFor(a, b) = {Row(a, b, TRUE, FALSE)} )
        => /\ matches' = matches
           /\ accepted' = accepted
           /\ ProposalsFor(a, b)' = {Row(a, b, TRUE, FALSE)}
    ]_vars

\* C3 witness: a has accepted b, b has not, and no ConfirmedMatch exists.
C3_Witness ==
    \E a \in Users : \E b \in Users \ {a} :
        /\ Answered(resp, "match_users", a, b)
        /\ resp.status = "redirect"
        /\ ProposalsFor(a, b) = {Row(a, b, TRUE, FALSE)}
        /\ RowsFor(accepted, a, b) = 0

C5_DeleteRemovesBoth ==
    [][\A a \in Users : \A b \in Users \ {a} :
        ( /\ Answered(resp', "delete_match", a, b)
          /\ ProposalsFor(a, b) # {}
          /\ RowsFor(accepted, a, b) >= 1 )
        => /\ ProposalsFor(a, b)' = {}
           /\ RowsFor(accepted', a, b) = 0
           /\ b \notin all_matches(accepted', a)
           /\ a \notin all_matches(accepted', b)
    ]_vars

\* C6: both users of a pair whose Proposal has both flags true are in each
\* other's match list, and show_matches renders for a user exactly the users
\* that have a ConfirmedMatch row with that user, in either direction, and
\* redirects a logged-in user only when there is none.
C6_MatchList ==
    /\ \A x \in Users : \A y \in Users \ {x} :
          (\E m \in ProposalsFor(x, y) : m.user1_accepted /\ m.user2_accepted)
          => /\ x \in all_matches(accepted, y)
             /\ y \in all_matches(accepted, x)
    /\ (resp.op = "show_matches" /\ resp.status = "render")
          => /\ resp.user \in Users
             /\ resp.body = {x \in Users : RowsFor(accepted, x, resp.user) > 0}
             /\ resp.body # {}
    /\ (resp.op = "show_matches" /\ resp.status = "redirect" /\ resp.user # NoUser)
          => \A x \in Users : RowsFor(accepted, x, resp.user) = 0

\* C6 witness: {a, b} was initiated by a and {a, c} by c, both are confirmed,
\* and show_matches renders {b, c} for a.
C6_Witness ==
    \E a \in Users : \E b \in Users \ {a} : \E c \in Users \ {a, b} :
        /\ matches = {Row(a, b, TRUE, TRUE), Row(c, a, TRUE, TRUE)}
        /\ resp.op = "show_matches"
        /\ resp.user = a
        /\ resp.status = "render"
        /\ resp.body = {b, c}
        /\ a \in all_matches(accepted, b)
        /\ a \in all_matches(accepted, c)

\* C7: delete_match by a logged-in user on an existing user, for a pair with
\* no ConfirmedMatch, raises no error and leaves both tables unchanged.
C7_DeleteNothingIsNoOp ==
    [][\A a \in Users : \A b \in Users :
        ( /\ Answered(resp', "delete_match", a, b)
          /\ RowsFor(accepted, a, b) = 0 )
        => /\ resp'.status # "error"
           /\ matches' = matches
           /\ accepted' = accepted
    ]_vars

\* C8: without a current user, match_users, delete_match and show_matches
\* for an existing user answer with a redirect.
C8_AnonymousIsRedirected ==
    ( /\ resp.user = NoUser
      /\ \/ resp.op = "show_matches"
         \/ (resp.op \in {"match_users", "delete_match"} /\ resp.other \in Users) )
    => resp.status = "redirect"

\* C9: the insert step of match_users adds a ConfirmedMatch row for its pair
\* whatever rows the pair already has.
C9_InsertIsUnguarded ==
    [][\A p \in Procs :
        (req[p].pc = "insert" /\ req'[p].pc = "done")
        => RowsFor(accepted', req[p].user, req[p].other)
              = RowsFor(accepted, req[p].user, req[p].other) + 1
    ]_vars

\* C9 witness: only two requests were made, a accepting b and b accepting a,
\* and the pair {a, b} has two ConfirmedMatch rows.
C9_Witness ==
    \E p \in Procs : \E q \in Procs \ {p} :
        /\ req[p].pc = "done"
        /\ req[q].pc = "done"
        /\ req[p].user = req[q].other
        /\ req[p].other = req[q].user
        /\ \A r \in Procs \ {p, q} : req[r].pc = "idle"
        /\ RowsFor(accepted, req[p].user, req[p].other) = 2

\* C10: the chain of redirects of show_homepage ends for every user,
\* whether or not an eligible candidate exists.
C10_RetryTerminates ==
    \A u \in Users : HomePending(u) ~> ~HomePending(u)

====
